---- MODULE Spec2Model ----
(***************************************************************************)
(* Model of src/src/app.py (CV Data Viewer): the dataset path resolver,    *)
(* the label discovery helpers, and the manifest ("train.txt") loader with *)
(* its process-wide cache.                                                 *)
(*                                                                         *)
(* A path string is a record [abs, segs]: abs says whether the string      *)
(* starts with "/", segs is the sequence of its "/"-separated names.  A    *)
(* name is a record [stem, ext] where ext is pathlib's suffix ("" when the *)
(* name has none).  A raw input string additionally carries ws, which says *)
(* whether it has leading/trailing whitespace (a manifest line always ends *)
(* in a newline).  The filesystem has no directory symlinks; a node of     *)
(* kind "link" is a symlink to a regular file stored at LinkTarget.        *)
(***************************************************************************)
EXTENDS Integers, Sequences, FiniteSets, TLC

VARIABLES fs,          \* kind of every node of the filesystem
          content,     \* the lines of the manifest file
          mtime,       \* st_mtime of the manifest file
          cache,       \* _TXT_CACHE
          last,        \* the last call: its arguments and what it returned
          returned,    \* per call arguments, what the loader returned since the manifest last changed
          edited,      \* whether the manifest lines were ever changed
          loader,      \* per thread, the position and locals of its load_train_entries call
          yolo,        \* per thread, the position and locals of its get_yolo_model call
          _YOLO_MODEL,       \* the loaded model, None before the first load
          _YOLO_MODEL_PATH   \* the path recorded for the loaded model

vars == <<fs, content, mtime, cache, last, returned, edited,
          loader, yolo, _YOLO_MODEL, _YOLO_MODEL_PATH>>

(***************************************************************************)
(* Bounds                                                                  *)
(***************************************************************************)
MaxLines == 2
MaxMtime == 3

\* the threads of the server's pool that run requests at the same time
Threads == {1, 2}

(***************************************************************************)
(* Names and path strings                                                  *)
(***************************************************************************)
D(s) == [stem |-> s, ext |-> ""]
F(s, e) == [stem |-> s, ext |-> e]
P(s) == [abs |-> TRUE, segs |-> s]
R(s) == [abs |-> FALSE, segs |-> s]

None == [none |-> TRUE]

\* v is evaluated once and Op is applied to its value (a local assignment)
With(v, Op(_)) == CHOOSE r \in {Op(x) : x \in {v}} : TRUE

DotDot == D("..")
Tilde == D("~")

Cwd == <<D("app")>>
Home == <<D("root")>>
LinkTarget == <<D("ext"), F("t", ".txt")>>

HOST_DATA_ROOT == P(<<D("Users"), D("jihunjang"), D("Downloads")>>)
CONTAINER_DATA_ROOT == P(<<D("datasets")>>)
IMAGE_EXTS == {".jpg", ".jpeg", ".png", ".bmp", ".webp"}
LABEL_EXT == ".txt"

\* str.lower() on the suffixes that occur in the model
Lower(e) ==
    CASE e = ".JPG" -> ".jpg"
      [] e = ".PNG" -> ".png"
      [] OTHER -> e

\* str.strip(): leading and trailing whitespace removed
Strip(raw) == [raw EXCEPT !.ws = FALSE]

\* the stripped string is empty
IsEmptyStr(s) == ~s.ws /\ ~s.abs /\ s.segs = <<>>

\* Path(path_str)
PathOf(s) == [abs |-> s.abs, segs |-> s.segs]

\* Path.name, Path.suffix, Path.with_suffix, Path.parent, Path / rel
Name(p) == p.segs[Len(p.segs)]
Suffix(p) == IF p.segs = <<>> THEN "" ELSE Name(p).ext
WithSuffix(p, e) ==
    [p EXCEPT !.segs[Len(p.segs)] = [stem |-> Name(p).stem, ext |-> e]]
ParentSegs(s) == IF s = <<>> THEN <<>> ELSE SubSeq(s, 1, Len(s) - 1)
Join(base, rel) == IF rel.abs THEN rel ELSE [base EXCEPT !.segs = base.segs \o rel.segs]

(***************************************************************************)
(* Filesystem queries                                                      *)
(***************************************************************************)
TrainFile == P(<<D("datasets"), F("train", ".txt")>>)
LabelDir == P(<<D("datasets"), D("lbl")>>)

ImagesD == <<D("datasets"), D("images"), D("d")>>
ImgA == P(ImagesD \o <<F("x", ".jpg")>>)
ImgU == P(ImagesD \o <<F("x", ".JPG")>>)
ImgG == P(ImagesD \o <<F("x", ".gif")>>)
ImgB == P(<<D("datasets"), D("other"), D("d"), F("x", ".jpg")>>)
ImgC == P(<<D("datasets"), D("images"), D("images"), F("x", ".jpg")>>)

\* the label files the images above can be paired with
Lbl1 == P(LabelDir.segs \o <<F("x", ".txt")>>)
Lbl2 == P(LabelDir.segs \o <<D("d"), F("x", ".txt")>>)
Lbl3 == P(LabelDir.segs \o <<D("images"), D("d"), F("x", ".txt")>>)
AutoD == P(<<D("datasets"), D("labels"), D("d"), F("x", ".txt")>>)
AutoC == P(<<D("datasets"), D("labels"), D("images"), F("x", ".txt")>>)
\* a label file at the place where ImgC's last "images" name is the one replaced
AutoLast == P(<<D("datasets"), D("images"), D("labels"), F("x", ".txt")>>)

\* every proper ancestor directory of a path
Ancestors(p) == {SubSeq(p.segs, 1, k) : k \in 0..(Len(p.segs) - 1)}

\* the nodes whose kind is part of the state
Nodes == {n.segs : n \in {CONTAINER_DATA_ROOT, TrainFile, ImgA, Lbl1, Lbl2, Lbl3, AutoD, AutoC}}

\* the model files of MODEL_DIR; the last one is not a model YOLO() can load
APP_ROOT == P(<<D("app")>>)
MODEL_DIR == Join(APP_ROOT, R(<<D("model")>>))
ModelPathOf(model_name) == Join(MODEL_DIR, R(<<F(model_name, ".pt")>>))
LoadableModels == {"yolo12x", "yolo11n"}
CorruptModels == {"corrupt"}

StaticFiles ==
    {LinkTarget, ImgU.segs, ImgG.segs, ImgB.segs, ImgC.segs, AutoLast.segs}
    \cup {ModelPathOf(n).segs : n \in LoadableModels \cup CorruptModels}
StaticDirs ==
    ({Cwd} \cup UNION {Ancestors(P(n)) : n \in Nodes \cup StaticFiles \cup {Cwd}}) \ Nodes

\* the kind of the node stored at an absolute, normalised path
Kind(n) ==
    IF n \in DOMAIN fs THEN fs[n]
    ELSE IF n \in StaticDirs THEN "dir"
    ELSE IF n \in StaticFiles THEN "file"
    ELSE "none"

\* kernel path lookup: every name is looked up in the directory reached so far
RECURSIVE Lookup(_, _)
Lookup(cur, rest) ==
    IF rest = <<>> THEN [ok |-> Kind(cur) # "none", node |-> cur]
    ELSE IF Kind(cur) # "dir" THEN [ok |-> FALSE, node |-> cur]
    ELSE IF Head(rest) = DotDot THEN Lookup(ParentSegs(cur), Tail(rest))
    ELSE Lookup(Append(cur, Head(rest)), Tail(rest))

Stat(p) ==
    With(Lookup(IF p.abs THEN <<>> ELSE Cwd, p.segs), LAMBDA l :
        IF l.ok THEN Kind(l.node) ELSE "none")

\* Path.exists(), Path.is_file(), Path.is_dir() (all follow symlinks)
Exists(p) == Stat(p) # "none"
IsFile(p) == Stat(p) \in {"file", "link"}
IsDir(p) == Stat(p) = "dir"

\* Path.expanduser()
Expanduser(p) ==
    IF ~p.abs /\ p.segs # <<>> /\ Head(p.segs) = Tilde
    THEN P(Home \o Tail(p.segs))
    ELSE p

\* Path.resolve(): absolute, ".." collapsed, a final symlink followed
RECURSIVE Collapse(_, _)
Collapse(acc, rest) ==
    IF rest = <<>> THEN acc
    ELSE IF Head(rest) = DotDot THEN Collapse(ParentSegs(acc), Tail(rest))
    ELSE Collapse(Append(acc, Head(rest)), Tail(rest))

Resolve(p) ==
    With(Collapse(<<>>, IF p.abs THEN p.segs ELSE Cwd \o p.segs), LAMBDA n :
        P(IF Kind(n) = "link" /\ Stat(P(n)) = "link" THEN LinkTarget ELSE n))

\* Path.relative_to(base) succeeds
IsUnder(p, base) ==
    /\ Len(p.segs) >= Len(base.segs)
    /\ SubSeq(p.segs, 1, Len(base.segs)) = base.segs

(***************************************************************************)
(* resolve_dataset_path, resolve_path_with_base                            *)
(***************************************************************************)
\* a name of the model whose string begins with the last name of
\* HOST_DATA_ROOT without being equal to it, and the rest of that string
HostSibling == D("Downloadsimages")
HostSiblingRest == D("images")

\* input_str.startswith(host_root_str): a prefix test on strings, not on names
StartsWithHostRoot(p) ==
    LET h == HOST_DATA_ROOT.segs
        n == Len(h)
    IN /\ Len(p.segs) >= n
       /\ SubSeq(p.segs, 1, n - 1) = SubSeq(h, 1, n - 1)
       /\ p.segs[n] \in {h[n], HostSibling}

\* input_str[len(host_root_str):].lstrip("/")
RelPart(p) ==
    LET n == Len(HOST_DATA_ROOT.segs)
        rest == SubSeq(p.segs, n + 1, Len(p.segs))
    IN R(IF p.segs[n] = HostSibling THEN <<HostSiblingRest>> \o rest ELSE rest)

\* the try block, were it to return the mapped path without testing it
HostMappingUnchecked(path_str) ==
    With(Resolve(Expanduser(PathOf(path_str))), LAMBDA abs_raw :
        IF StartsWithHostRoot(abs_raw)
        THEN [returns |-> TRUE, exc |-> "none",
              value |-> Resolve(Join(CONTAINER_DATA_ROOT, RelPart(abs_raw)))]
        ELSE [returns |-> FALSE, value |-> None, exc |-> "none"])

\* the body of the try block: what it returns, or the exception it raises
HostMapping(path_str) ==
    With(Resolve(Expanduser(PathOf(path_str))), LAMBDA abs_raw :
        IF StartsWithHostRoot(abs_raw)
        THEN With(Resolve(Join(CONTAINER_DATA_ROOT, RelPart(abs_raw))), LAMBDA mapped :
                IF Exists(mapped)
                THEN [returns |-> TRUE, value |-> mapped, exc |-> "none"]
                ELSE IF IsDir(CONTAINER_DATA_ROOT)
                THEN [returns |-> FALSE, value |-> None, exc |-> "none"]
                ELSE [returns |-> FALSE, value |-> None,
                      exc |-> IF Exists(CONTAINER_DATA_ROOT)
                              THEN "NotADirectoryError" ELSE "FileNotFoundError"])
        ELSE [returns |-> FALSE, value |-> None, exc |-> "none"])

\* the except clause, were it to re-raise
ExceptHandlerReraise(t, candidate) == [value |-> candidate, exc |-> t.exc]

\* the except clause prints and falls through to the final return
ExceptHandler(t, candidate) == [value |-> candidate, exc |-> "none"]

ResolveDatasetPathOutcome(raw_path) ==
    With(PathOf(Strip(raw_path)), LAMBDA candidate :
        IF Exists(candidate)
        THEN [value |-> Resolve(candidate), exc |-> "none"]
        ELSE With(HostMapping(Strip(raw_path)), LAMBDA t :
                IF t.exc # "none" THEN ExceptHandler(t, candidate)
                ELSE IF t.returns THEN [value |-> t.value, exc |-> "none"]
                ELSE [value |-> candidate, exc |-> "none"]))

resolve_dataset_path(raw_path) == ResolveDatasetPathOutcome(raw_path).value

resolve_path_with_base(raw_path, base_dir) ==
    With(Strip(raw_path), LAMBDA cleaned :
    With(resolve_dataset_path(cleaned), LAMBDA candidate :
        IF Exists(candidate) THEN candidate
        ELSE IF base_dir # None
        THEN With(Resolve(Expanduser(Join(Resolve(base_dir), PathOf(cleaned)))),
                  LAMBDA tentative : IF Exists(tentative) THEN tentative ELSE candidate)
        ELSE candidate))

(***************************************************************************)
(* _join_file_if_exists, find_label_for_image,                             *)
(* auto_find_label_from_image_path                                         *)
(***************************************************************************)
_join_file_if_exists(base, rel) ==
    IF rel.abs THEN None
    ELSE With(Resolve(base), LAMBDA base_resolved :
         With(Resolve(Join(base_resolved, rel)), LAMBDA candidate :
            IF ~IsUnder(candidate, base_resolved) THEN None
            ELSE IF IsFile(candidate) THEN candidate
            ELSE None))

\* image_path.relative_to(ancestor) for the k-th ancestor, the parent being the first
RelativeTo(image_path, k) ==
    R(SubSeq(image_path.segs, Len(image_path.segs) - k + 1, Len(image_path.segs)))

\* the ancestors visited from the farthest to the nearest
ParentsFarthestFirst(image_path) ==
    [k \in 1..Len(image_path.segs) |-> Len(image_path.segs) - k + 1]

\* the parent visited at every iteration
ParentsNearestOnly(image_path) == [k \in 1..Len(image_path.segs) |-> 1]

\* the order in which `for ancestor in image_path.parents` visits the ancestors
ParentsOrder(image_path) == [k \in 1..Len(image_path.segs) |-> k]

\* the loop over image_path.parents, from the i-th visited ancestor on
RECURSIVE AncestorLoop(_, _, _, _)
AncestorLoop(image_path, label_root_resolved, i, seen_relatives) ==
    IF i > Len(image_path.segs)
    THEN [found |-> FALSE, seen_relatives |-> seen_relatives]
    ELSE With(RelativeTo(image_path, ParentsOrder(image_path)[i]), LAMBDA rel_str :
            IF rel_str \in seen_relatives
            THEN AncestorLoop(image_path, label_root_resolved, i + 1, seen_relatives)
            ELSE With(WithSuffix(rel_str, LABEL_EXT), LAMBDA label_rel :
                 With(_join_file_if_exists(label_root_resolved, label_rel), LAMBDA candidate :
                    IF candidate # None
                    THEN [found |-> TRUE, rel_path |-> rel_str,
                          label_rel |-> label_rel, label_abs |-> candidate]
                    ELSE With(seen_relatives \cup {rel_str}, LAMBDA seen :
                            AncestorLoop(image_path, label_root_resolved, i + 1, seen)))))

find_label_for_image(image_path, label_root) ==
    With(Resolve(label_root), LAMBDA label_root_resolved :
    With(AncestorLoop(image_path, label_root_resolved, 1, {}), LAMBDA walk :
        IF walk.found THEN walk
        ELSE With(R(<<Name(image_path)>>), LAMBDA filename_rel :
                IF filename_rel \notin walk.seen_relatives
                THEN With(WithSuffix(filename_rel, LABEL_EXT), LAMBDA label_rel :
                     With(_join_file_if_exists(label_root_resolved, label_rel), LAMBDA candidate :
                        IF candidate # None
                        THEN [found |-> TRUE, rel_path |-> filename_rel,
                              label_rel |-> label_rel, label_abs |-> candidate]
                        ELSE None))
                ELSE None)))

ImagesName == D("images")
LabelsName == D("labels")

\* the positions where the string "/images/" occurs in str(image_path)
ImagesAt(p) ==
    {i \in 1..(Len(p.segs) - 1) : p.segs[i] = ImagesName /\ (p.abs \/ i > 1)}

Min(S) == CHOOSE x \in S : \A y \in S : x <= y

Max(S) == CHOOSE x \in S : \A y \in S : x >= y

\* the last occurrence replaced instead of the first
ReplaceLastImages(p) == [p EXCEPT !.segs[Max(ImagesAt(p))] = LabelsName]

\* path_str.replace('/images/', '/labels/', 1)
ReplaceFirstImages(p) == [p EXCEPT !.segs[Min(ImagesAt(p))] = LabelsName]

auto_find_label_from_image_path(image_path) ==
    IF ImagesAt(image_path) # {}
    THEN With(WithSuffix(ReplaceFirstImages(image_path), LABEL_EXT), LAMBDA label_path :
            IF Exists(label_path) THEN label_path ELSE None)
    ELSE None

(***************************************************************************)
(* load_train_entries: the parse                                           *)
(***************************************************************************)
TxtEntry(image_path, label_path, rel_path, label_rel) ==
    [image_path |-> image_path, label_path |-> label_path,
     rel_path |-> rel_path, label_rel |-> label_rel]

\* lines 224-236: the label of one image, by label directory or by auto mapping
LabelOf(image_path_candidate, label_dir_path) ==
    IF label_dir_path # None
    THEN find_label_for_image(image_path_candidate, label_dir_path)
    ELSE With(auto_find_label_from_image_path(image_path_candidate), LAMBDA label_abs :
            IF label_abs = None THEN None
            ELSE [found |-> TRUE, rel_path |-> R(<<Name(image_path_candidate)>>),
                  label_rel |-> R(<<Name(label_abs)>>), label_abs |-> label_abs])

\* the entry appended without the test on seen_rel_paths
AppendAlways(st, image_path_candidate, label_info) ==
    [entries |-> Append(st.entries,
                        TxtEntry(Resolve(image_path_candidate), label_info.label_abs,
                                 label_info.rel_path, label_info.label_rel)),
     seen_rel_paths |-> st.seen_rel_paths \cup {label_info.rel_path}]

\* lines 238-248: the entry is appended unless its rel_path was seen
AppendUnlessSeen(st, image_path_candidate, label_info) ==
    IF label_info.rel_path \in st.seen_rel_paths THEN st
    ELSE [entries |-> Append(st.entries,
                             TxtEntry(Resolve(image_path_candidate), label_info.label_abs,
                                      label_info.rel_path, label_info.label_rel)),
          seen_rel_paths |-> st.seen_rel_paths \cup {label_info.rel_path}]

\* one iteration without the is_file() test
LineStepNoFileTest(st, raw_line, train_file_path, label_dir_path) ==
    With(Strip(raw_line), LAMBDA path_str :
        IF IsEmptyStr(path_str) THEN st
        ELSE With(resolve_path_with_base(path_str, P(ParentSegs(train_file_path.segs))),
                  LAMBDA image_path_candidate :
                IF ~Exists(image_path_candidate) THEN st
                ELSE IF Lower(Suffix(image_path_candidate)) \notin IMAGE_EXTS THEN st
                ELSE With(LabelOf(image_path_candidate, label_dir_path), LAMBDA label_info :
                        IF label_info = None THEN st
                        ELSE AppendUnlessSeen(st, image_path_candidate, label_info))))

\* one iteration of `for raw_line in fh`
LineStep(st, raw_line, train_file_path, label_dir_path) ==
    With(Strip(raw_line), LAMBDA path_str :
        IF IsEmptyStr(path_str) THEN st
        ELSE With(resolve_path_with_base(path_str, P(ParentSegs(train_file_path.segs))),
                  LAMBDA image_path_candidate :
                IF ~Exists(image_path_candidate) \/ ~IsFile(image_path_candidate) THEN st
                ELSE IF Lower(Suffix(image_path_candidate)) \notin IMAGE_EXTS THEN st
                ELSE With(LabelOf(image_path_candidate, label_dir_path), LAMBDA label_info :
                        IF label_info = None THEN st
                        ELSE AppendUnlessSeen(st, image_path_candidate, label_info))))

\* `for raw_line in fh`, from the i-th line on
RECURSIVE ParseLines(_, _, _, _, _)
ParseLines(st, lines, i, train_file_path, label_dir_path) ==
    IF i > Len(lines) THEN st
    ELSE With(LineStep(st, lines[i], train_file_path, label_dir_path), LAMBDA next :
            ParseLines(next, lines, i + 1, train_file_path, label_dir_path))

\* lines 210-248
ParseManifest(train_file_path, label_dir_path) ==
    ParseLines([entries |-> <<>>, seen_rel_paths |-> {}], content, 1,
               train_file_path, label_dir_path).entries

\* the mapping built without the last entry of the list
EntriesByRelButLast(entries) ==
    [r \in {entries[i].rel_path : i \in 1..(Len(entries) - 1)} |->
        entries[CHOOSE i \in 1..(Len(entries) - 1) : entries[i].rel_path = r]]

\* {entry.rel_path: entry for entry in entries}: a later entry replaces an earlier one
EntriesByRel(entries) ==
    [r \in {entries[i].rel_path : i \in DOMAIN entries} |->
        entries[CHOOSE i \in DOMAIN entries :
                    /\ entries[i].rel_path = r
                    /\ \A j \in DOMAIN entries : entries[j].rel_path = r => j <= i]]

(***************************************************************************)
(* load_train_entries, get_train_entry_by_rel                              *)
(***************************************************************************)
AutoStr == R(<<D("auto")>>)

CacheKey(train_file_path, label_dir_path) ==
    <<Resolve(train_file_path),
      IF label_dir_path # None THEN Resolve(label_dir_path) ELSE AutoStr>>

\* _TXT_CACHE.get(cache_key)
CacheGet(c, cache_key) == IF cache_key \in DOMAIN c THEN c[cache_key] ELSE None

\* the cache never consulted
CacheHitNever(cached, m) == FALSE

\* an entry of an older modification time taken for valid
CacheHitNotNewer(cached, m) == cached # None /\ cached.mtime <= m

\* lines 206-207: `cached and cached[0] == mtime`
CacheHit(cached, m) == cached # None /\ cached.mtime = m

\* line 250-251: the tuple (mtime, entries, entries_by_rel)
CacheValue(m, entries) ==
    [mtime |-> m, entries |-> entries, by_rel |-> EntriesByRel(entries)]

\* the dictionary rebuilt with the new entry alone
CacheStoreOnly(c, cache_key, value) == cache_key :> value

\* line 251: _TXT_CACHE[cache_key] = value
CacheStore(c, cache_key, value) == (cache_key :> value) @@ c

\* the call as a whole: the exception or the value it ends with, the cache it
\* leaves, and whether it read the manifest
load_train_entries(train_file_path, label_dir_path) ==
    With(Resolve(train_file_path), LAMBDA train :
    With(CacheKey(train_file_path, label_dir_path), LAMBDA cache_key :
    With(CacheGet(cache, cache_key), LAMBDA cached :
        IF ~Exists(train)
        THEN [exc |-> "FileNotFoundError", value |-> None, cache |-> cache, parsed |-> FALSE]
        ELSE IF CacheHit(cached, mtime)
        THEN [exc |-> "none", value |-> cached.entries, cache |-> cache, parsed |-> FALSE]
        ELSE IF IsDir(train)
        THEN [exc |-> "IsADirectoryError", value |-> None, cache |-> cache, parsed |-> FALSE]
        ELSE With(ParseManifest(train, label_dir_path), LAMBDA entries :
                [exc |-> "none", value |-> entries, parsed |-> TRUE,
                 cache |-> CacheStore(cache, cache_key,
                                      CacheValue(mtime, entries))]))))

\* the mapping probed as it was before the call to load_train_entries
get_train_entry_by_rel_stale(train_file_path, label_dir_path, rel_path) ==
    With(load_train_entries(train_file_path, label_dir_path), LAMBDA loaded :
    With(CacheGet(cache, CacheKey(train_file_path, label_dir_path)), LAMBDA cached :
        IF loaded.exc # "none" THEN [loaded EXCEPT !.value = None]
        ELSE IF cached = None THEN [loaded EXCEPT !.value = None]
        ELSE IF rel_path \in DOMAIN cached.by_rel
        THEN [loaded EXCEPT !.value = cached.by_rel[rel_path]]
        ELSE [loaded EXCEPT !.value = None]))

get_train_entry_by_rel(train_file_path, label_dir_path, rel_path) ==
    With(load_train_entries(train_file_path, label_dir_path), LAMBDA loaded :
    With(CacheGet(loaded.cache, CacheKey(train_file_path, label_dir_path)), LAMBDA cached :
        IF loaded.exc # "none" THEN [loaded EXCEPT !.value = None]
        ELSE IF cached = None THEN [loaded EXCEPT !.value = None]
        ELSE IF rel_path \in DOMAIN cached.by_rel
        THEN [loaded EXCEPT !.value = cached.by_rel[rel_path]]
        ELSE [loaded EXCEPT !.value = None]))

(***************************************************************************)
(* Inputs                                                                  *)
(***************************************************************************)
Raw(p) == [ws |-> TRUE, abs |-> p.abs, segs |-> p.segs]
HostPath(rel) == P(HOST_DATA_ROOT.segs \o rel)

Blank == Raw(R(<<>>))
LineA == Raw(ImgA)
LineARel == Raw(R(Tail(ImgA.segs)))
LineBHost == Raw(HostPath(Tail(ImgB.segs)))
LineC == Raw(ImgC)
LineU == Raw(ImgU)
LineG == Raw(ImgG)

Lines == {Blank, LineARel, LineBHost, LineC, LineU, LineG}
Contents == UNION {[1..n -> Lines] : n \in 0..MaxLines}

\* the manifest versions an editor writes in the stateful specification
ManifestVersions == {<<LineU, LineARel>>, <<LineBHost, LineARel>>}

\* (train_file_path, label_dir_path) of a loader call
LoadArgs == {[train |-> TrainFile, label |-> LabelDir],
             [train |-> TrainFile, label |-> None]}

RelInputs == {R(<<Name(ImgA)>>), R(<<D("d"), Name(ImgA)>>)}

RawInputs ==
    {LineA, LineARel, Blank, [LineA EXCEPT !.ws = FALSE],
     Raw(HostPath(Tail(ImgA.segs))),
     Raw(HostPath(<<D("d"), DotDot>> \o Tail(ImgA.segs))),
     Raw(P(SubSeq(HOST_DATA_ROOT.segs, 1, 2) \o <<HostSibling>> \o Tail(Tail(ImgA.segs)))),
     Raw(R(<<Tilde, D("Downloads")>> \o Tail(ImgA.segs)))}

BaseInputs == {None, CONTAINER_DATA_ROOT}

ImageInputs == {ImgA, ImgB, ImgC, ImgU, P(<<Name(ImgA)>>)}

\* the kinds each node takes in the initial states of the function specifications
NodeKinds(n) ==
    CASE n = CONTAINER_DATA_ROOT.segs -> {"dir", "none"}
      [] n = TrainFile.segs -> {"file", "none"}
      [] n = ImgA.segs -> {"file", "none", "dir"}
      [] n = Lbl1.segs -> {"file", "none", "link"}
      [] n = Lbl2.segs -> {"file", "none", "link"}
      [] OTHER -> {"file", "none"}

FsConfigs == {f \in [Nodes -> {"file", "none", "dir", "link"}] : \A n \in Nodes : f[n] \in NodeKinds(n)}

\* the nodes that vary in the initial states of the loader specification
ParseNodes == {ImgA.segs, Lbl1.segs, Lbl2.segs, AutoD.segs}

BaseFs ==
    [n \in Nodes |->
        CASE n = CONTAINER_DATA_ROOT.segs -> "dir"
          [] n \in {Lbl1.segs, Lbl3.segs} -> "none"
          [] OTHER -> "file"]

NotReturned == [valid |-> FALSE, value |-> <<>>]

\* a thread that runs no call
Idle == [pc |-> "idle"]

(***************************************************************************)
(* Actions                                                                 *)
(***************************************************************************)
\* how the call found the cache: no entry, an entry of another mtime, or a valid one
How(cached) ==
    IF cached = None THEN "miss" ELSE IF cached.mtime = mtime THEN "hit" ELSE "stale"

\* a request calls load_train_entries
LoadTrainEntries(a) ==
    \E r \in {load_train_entries(a.train, a.label)} :
       /\ cache' = r.cache
       /\ last' = [op |-> "load", args |-> a, rel |-> None, exc |-> r.exc,
                   value |-> r.value, parsed |-> r.parsed,
                   how |-> How(CacheGet(cache, CacheKey(a.train, a.label)))]
       /\ returned' = IF r.exc = "none"
                      THEN [returned EXCEPT ![a] = [valid |-> TRUE, value |-> r.value]]
                      ELSE returned
       /\ UNCHANGED <<loader, yolo, _YOLO_MODEL, _YOLO_MODEL_PATH, fs, content, mtime, edited>>

\* a request calls get_train_entry_by_rel
GetTrainEntryByRel(a, rel_path) ==
    \E r \in {get_train_entry_by_rel(a.train, a.label, rel_path)} :
       /\ cache' = r.cache
       /\ last' = [op |-> "get", args |-> a, rel |-> rel_path, exc |-> r.exc,
                   value |-> r.value, parsed |-> r.parsed,
                   how |-> How(CacheGet(cache, CacheKey(a.train, a.label)))]
       /\ returned' = IF r.exc = "none"
                      THEN [returned EXCEPT ![a] =
                               [valid |-> TRUE,
                                value |-> CacheGet(r.cache, CacheKey(a.train, a.label)).entries]]
                      ELSE returned
       /\ UNCHANGED <<loader, yolo, _YOLO_MODEL, _YOLO_MODEL_PATH, fs, content, mtime, edited>>

\* the environment: the manifest is touched or rewritten
Modified == [a \in LoadArgs |-> NotReturned]

TouchManifest ==
    /\ Exists(TrainFile)
    /\ mtime < MaxMtime
    /\ mtime' = mtime + 1
    /\ returned' = Modified
    /\ UNCHANGED <<loader, yolo, _YOLO_MODEL, _YOLO_MODEL_PATH, fs, content, cache, last, edited>>

WriteManifest(c) ==
    /\ mtime < MaxMtime
    /\ c # content
    /\ mtime' = mtime + 1
    /\ content' = c
    /\ edited' = TRUE
    /\ returned' = Modified
    /\ UNCHANGED <<loader, yolo, _YOLO_MODEL, _YOLO_MODEL_PATH, fs, cache, last>>

\* the environment: an image or label file appears or disappears
MutableNodes == {Lbl1.segs}

SetNode(n, k) ==
    /\ fs[n] # k
    /\ fs' = [fs EXCEPT ![n] = k]
    /\ UNCHANGED <<loader, yolo, _YOLO_MODEL, _YOLO_MODEL_PATH, content, mtime, cache, last, returned, edited>>

\* calls of the pure helpers
ResolveDatasetPath(raw) ==
    /\ last' = [op |-> "resolve_dataset_path", raw |-> raw, base |-> None,
                out |-> ResolveDatasetPathOutcome(raw)]
    /\ UNCHANGED <<loader, yolo, _YOLO_MODEL, _YOLO_MODEL_PATH, fs, content, mtime, cache, returned, edited>>

ResolvePathWithBase(raw, base) ==
    /\ last' = [op |-> "resolve_path_with_base", raw |-> raw, base |-> base,
                out |-> [value |-> resolve_path_with_base(raw, base), exc |-> "none"]]
    /\ UNCHANGED <<loader, yolo, _YOLO_MODEL, _YOLO_MODEL_PATH, fs, content, mtime, cache, returned, edited>>

FindLabelForImage(image_path, label_root) ==
    /\ last' = [op |-> "find_label_for_image", image |-> image_path, root |-> label_root,
                out |-> find_label_for_image(image_path, label_root)]
    /\ UNCHANGED <<loader, yolo, _YOLO_MODEL, _YOLO_MODEL_PATH, fs, content, mtime, cache, returned, edited>>

AutoFindLabel(image_path) ==
    /\ last' = [op |-> "auto_find_label", image |-> image_path, root |-> None,
                out |-> auto_find_label_from_image_path(image_path)]
    /\ UNCHANGED <<loader, yolo, _YOLO_MODEL, _YOLO_MODEL_PATH, fs, content, mtime, cache, returned, edited>>

(***************************************************************************)
(* Specifications                                                          *)
(***************************************************************************)
InitRest ==
    /\ mtime = 1
    /\ cache = <<>>
    /\ last = [op |-> "init"]
    /\ returned = Modified
    /\ edited = FALSE
    /\ loader = [t \in Threads |-> Idle]
    /\ yolo = [t \in Threads |-> Idle]
    /\ _YOLO_MODEL = None
    /\ _YOLO_MODEL_PATH = None

\* the server with its cache, and an environment that edits the dataset
Init ==
    /\ fs = BaseFs
    /\ content \in ManifestVersions
    /\ InitRest

Next ==
    \/ \E a \in LoadArgs : LoadTrainEntries(a)
    \/ \E a \in LoadArgs, r \in RelInputs : GetTrainEntryByRel(a, r)
    \/ TouchManifest
    \/ \E c \in ManifestVersions : WriteManifest(c)
    \/ \E n \in MutableNodes, k \in {"file", "none"} : SetNode(n, k)

Spec == Init /\ [][Next]_vars

\* the loader on every manifest and dataset of the bounded universe
InitParse ==
    /\ fs \in {f \in FsConfigs : \A n \in Nodes : IF n \in ParseNodes THEN f[n] # "link"
                                                    ELSE f[n] = BaseFs[n]}
    /\ content \in Contents
    /\ InitRest

NextParse == \E a \in LoadArgs : LoadTrainEntries(a)

SpecParse == InitParse /\ [][NextParse]_vars

\* the label discovery helpers on every dataset of the bounded universe
InitFn ==
    /\ fs \in FsConfigs
    /\ content = <<>>
    /\ InitRest

NextLabel ==
    \/ \E i \in ImageInputs : FindLabelForImage(i, LabelDir)
    \/ \E i \in ImageInputs : AutoFindLabel(i)

SpecLabel == InitFn /\ [][NextLabel]_vars

\* the path resolver on every dataset of the bounded universe
NextResolve ==
    \/ \E raw \in RawInputs : ResolveDatasetPath(raw)
    \/ \E raw \in RawInputs, base \in BaseInputs : ResolvePathWithBase(raw, base)

SpecResolve == InitFn /\ [][NextResolve]_vars

(***************************************************************************)
(* Route handlers: list_images, annotate_page, viewer, get_labels,         *)
(* scan_progress.  A handler ends with a response [status, ...]; an        *)
(* exception no handler catches ends the request with status 500 and is    *)
(* recorded in exc.  A list whose order plays no role in the response      *)
(* status is kept as the set of its elements.                              *)
(***************************************************************************)
\* a query parameter that was given: a string without surrounding whitespace
Str(p) == [ws |-> FALSE, abs |-> p.abs, segs |-> p.segs]

\* the truth value of an Optional[str]
Truthy(s) == s # None /\ ~IsEmptyStr(s)

\* the nodes below a directory, at any depth
Descendants(dir) ==
    {n \in Nodes \cup StaticFiles \cup StaticDirs :
                      /\ Len(n) > Len(dir.segs)
                      /\ SubSeq(n, 1, Len(dir.segs)) = dir.segs
                      /\ Exists(P(n))}

\* Path.iterdir()
Iterdir(dir) == {n \in Descendants(dir) : Len(n) = Len(dir.segs) + 1}

\* path.relative_to(img_dir) for a node below img_dir
RelTo(n, dir) == R(SubSeq(n, Len(dir.segs) + 1, Len(n)))

IsImageFile(n) == IsFile(P(n)) /\ Lower(Suffix(P(n))) \in IMAGE_EXTS

HasLabel(n, img_dir, label_dir) ==
    IsFile(Join(label_dir, WithSuffix(RelTo(n, img_dir), LABEL_EXT)))

list_images(img_dir, label_dir) ==
    IF ~Exists(img_dir) THEN [exc |-> "none", value |-> {}]
    ELSE IF ~IsDir(img_dir) THEN [exc |-> "NotADirectoryError", value |-> {}]
    ELSE With(Resolve(img_dir), LAMBDA dir :
         With({n \in Iterdir(dir) : IsImageFile(n)}, LAMBDA depth_one :
         With({n \in Iterdir(dir) : IsDir(P(n))}, LAMBDA depth_dirs :
            [exc |-> "none",
             value |-> {RelTo(n, dir) : n \in {m \in depth_one : HasLabel(m, dir, label_dir)}}
                       \cup {RelTo(n, dir) :
                                n \in {m \in UNION {Iterdir(P(sub)) : sub \in depth_dirs} :
                                          IsImageFile(m) /\ HasLabel(m, dir, label_dir)}}])))

collect_images(img_dir, label_dir) == list_images(img_dir, label_dir)

\* raise HTTPException(status, detail)
HTTPException(status, detail, c) ==
    [status |-> status, page |-> "error", detail |-> detail, exc |-> "none",
     data |-> {}, cache |-> c]

\* an exception that leaves the handler
Unhandled(exc, c) ==
    [status |-> 500, page |-> "error", detail |-> "Internal Server Error", exc |-> exc,
     data |-> {}, cache |-> c]

\* TEMPLATES.TemplateResponse(page, ..., status_code)
TemplateResponse(page, status, detail, data, c) ==
    [status |-> status, page |-> page, detail |-> detail, exc |-> "none",
     data |-> data, cache |-> c]

\* annotate_page with the tests on the resolved paths left out
annotate_page_unchecked(img_dir, label_dir) ==
    With(resolve_dataset_path(img_dir), LAMBDA img_dir_path :
    With({RelTo(n, Resolve(img_dir_path)) :
             n \in {m \in Descendants(Resolve(img_dir_path)) : IsImageFile(m)}},
         LAMBDA images :
            IF images = {}
            THEN HTTPException(404, "No images found in directory", cache)
            ELSE TemplateResponse("annotate.html", 200, "", images, cache)))

annotate_page(img_dir, label_dir) ==
    With(resolve_dataset_path(img_dir), LAMBDA img_dir_path :
        IF ~Exists(img_dir_path) \/ ~IsDir(img_dir_path)
        THEN HTTPException(404, "Image directory not found", cache)
        ELSE IF Truthy(label_dir)
                /\ With(resolve_dataset_path(label_dir), LAMBDA label_dir_path :
                        ~Exists(label_dir_path) \/ ~IsDir(label_dir_path))
        THEN HTTPException(404, "Label directory not found", cache)
        ELSE With({RelTo(n, Resolve(img_dir_path)) :
                      n \in {m \in Descendants(Resolve(img_dir_path)) : IsImageFile(m)}},
                  LAMBDA images :
                IF images = {}
                THEN HTTPException(404, "No images found in directory", cache)
                ELSE TemplateResponse("annotate.html", 200, "", images, cache)))

DATASET_MODES == {"folder", "txt", "annotate"}

\* (mode or "folder").lower(), on the mode strings of the model
ModeOf(mode) == IF mode = "" THEN "folder" ELSE IF mode = "TXT" THEN "txt" ELSE mode

\* lines 416-439: folder mode
ViewerFolder(img_dir, label_dir, label_dir_path) ==
    IF ~Truthy(label_dir)
    THEN TemplateResponse("index.html", 400, "Label directory is required for folder mode.",
                          {}, cache)
    ELSE IF ~Truthy(img_dir)
    THEN TemplateResponse("index.html", 400, "Image directory required", {}, cache)
    ELSE With(resolve_dataset_path(img_dir), LAMBDA img_dir_path :
            IF ~Exists(img_dir_path)
            THEN TemplateResponse("index.html", 400, "Invalid image directory", {}, cache)
            ELSE With(collect_images(img_dir_path, label_dir_path), LAMBDA images :
                    IF images.exc # "none" THEN Unhandled(images.exc, cache)
                    ELSE IF images.value = {}
                    THEN TemplateResponse("index.html", 400, "No matching images found",
                                          {}, cache)
                    ELSE TemplateResponse("viewer.html", 200, "", images.value, cache)))

\* lines 440-463: txt mode
ViewerTxt(train_file, label_dir, label_dir_path) ==
    IF ~Truthy(train_file)
    THEN TemplateResponse("index.html", 400, "Train file required", {}, cache)
    ELSE With(resolve_dataset_path(train_file), LAMBDA train_file_path :
            IF ~Exists(train_file_path)
            THEN TemplateResponse("index.html", 400, "Invalid train file", {}, cache)
            ELSE With(load_train_entries(train_file_path, label_dir_path), LAMBDA loaded :
                    IF loaded.exc # "none" THEN Unhandled(loaded.exc, loaded.cache)
                    ELSE IF loaded.value = <<>>
                    THEN TemplateResponse("index.html", 400,
                                          IF Truthy(label_dir)
                                          THEN "No valid entries in train file"
                                          ELSE "No valid entries in train file (auto-mapping)",
                                          {}, loaded.cache)
                    ELSE TemplateResponse("viewer.html", 200, "",
                                          {loaded.value[i].rel_path : i \in DOMAIN loaded.value},
                                          loaded.cache)))

viewer(mode, img_dir, train_file, label_dir) ==
    IF ModeOf(mode) \notin DATASET_MODES
    THEN HTTPException(400, "Invalid dataset mode", cache)
    ELSE With(IF Truthy(label_dir) THEN resolve_dataset_path(label_dir) ELSE None,
              LAMBDA label_dir_path :
            IF Truthy(label_dir) /\ ~Exists(label_dir_path)
            THEN TemplateResponse("index.html", 400, "Invalid label directory", {}, cache)
            ELSE IF ModeOf(mode) = "folder"
            THEN ViewerFolder(img_dir, label_dir, label_dir_path)
            ELSE ViewerTxt(train_file, label_dir, label_dir_path))

\* the query value "auto" of label_dir
AutoArg == Str(AutoStr)

\* lines 493, 532: resolve_dataset_path(label_dir) if label_dir and label_dir != "auto" else None
LabelDirOrAuto(label_dir) ==
    IF Truthy(label_dir) /\ label_dir # AutoArg THEN resolve_dataset_path(label_dir) ELSE None

\* JSONResponse of get_labels; read says whether the label file was opened and read
LabelsResponse(rel_path, label_path, c) ==
    [status |-> 200, page |-> "json", detail |-> "", exc |-> "none",
     data |-> [image |-> rel_path, label |-> label_path,
               read |-> label_path # None /\ IsFile(label_path)],
     cache |-> c]

get_labels(mode, rel_path, img_dir, label_dir, train_file, label_path_direct) ==
    IF ModeOf(mode) = "folder"
    THEN IF ~Truthy(label_dir) THEN HTTPException(400, "Label dir required", cache)
         ELSE LabelsResponse(rel_path,
                             Join(resolve_dataset_path(label_dir),
                                  WithSuffix(rel_path, LABEL_EXT)),
                             cache)
    ELSE IF Truthy(label_path_direct)
    THEN LabelsResponse(rel_path, PathOf(label_path_direct), cache)
    ELSE IF Truthy(train_file)
    THEN With(get_train_entry_by_rel(resolve_dataset_path(train_file),
                                     LabelDirOrAuto(label_dir), rel_path), LAMBDA got :
            IF got.exc # "none" THEN Unhandled(got.exc, got.cache)
            ELSE LabelsResponse(rel_path,
                                IF got.value # None THEN got.value.label_path ELSE None,
                                got.cache))
    ELSE LabelsResponse(rel_path, None, cache)

\* StreamingResponse(event_stream()): the events the generator yields, and the
\* exception that ends it
Stream(events, exc, c) ==
    [status |-> 200, page |-> "event-stream", detail |-> "", exc |-> exc,
     data |-> events, cache |-> c]

ErrorEvent(message) == [status |-> "error", message |-> message]

\* lines 764-784: from the list of images to the end of the stream
StreamImages(images, auto, c) ==
    IF images = {}
    THEN Stream(<<ErrorEvent(IF auto THEN "No images found (auto-mapping)"
                             ELSE "No images found")>>, "none", c)
    ELSE Stream(<<[status |-> "progress", message |-> ""],
                  [status |-> "done", message |-> "viewer_url"]>>, "none", c)

scan_progress(mode, img_dir, label_dir, train_file) ==
    IF mode = "folder"
    THEN IF ~Truthy(img_dir) \/ ~Truthy(label_dir)
         THEN Stream(<<ErrorEvent("Missing args for folder mode")>>, "none", cache)
         ELSE With(resolve_dataset_path(img_dir), LAMBDA img_path :
              With(resolve_dataset_path(label_dir), LAMBDA lbl_path :
                 IF ~Exists(img_path) \/ ~Exists(lbl_path)
                 THEN Stream(<<ErrorEvent("Invalid paths")>>, "none", cache)
                 ELSE With(list_images(img_path, lbl_path), LAMBDA images :
                         IF images.exc # "none" THEN Stream(<<>>, images.exc, cache)
                         ELSE StreamImages(images.value, FALSE, cache))))
    ELSE IF ~Truthy(train_file)
    THEN Stream(<<ErrorEvent("Missing train file")>>, "none", cache)
    ELSE With(load_train_entries(resolve_dataset_path(train_file),
                                 IF Truthy(label_dir) THEN resolve_dataset_path(label_dir)
                                 ELSE None), LAMBDA loaded :
            IF loaded.exc # "none" THEN Stream(<<>>, loaded.exc, loaded.cache)
            ELSE StreamImages({loaded.value[i].rel_path : i \in DOMAIN loaded.value},
                              mode = "txt" /\ ~Truthy(label_dir), loaded.cache))

(***************************************************************************)
(* Requests to the routes                                                  *)
(***************************************************************************)
Missing == P(<<D("datasets"), D("missing")>>)

\* the values of a path parameter: absent, the given path, a path not on disk
QueryInputs(p) == {None, Str(p), Str(Missing)}

\* the datasets the routes are called on
RouteFsConfigs ==
    {f \in [Nodes -> {"file", "none", "dir"}] :
        /\ f[TrainFile.segs] \in {"file", "none", "dir"}
        /\ \A n \in Nodes \ {TrainFile.segs} : f[n] = BaseFs[n]}

Answer(op, args, r) ==
    /\ cache' = r.cache
    /\ last' = [op |-> op, args |-> args,
                resp |-> [status |-> r.status, page |-> r.page, detail |-> r.detail,
                          exc |-> r.exc, data |-> r.data]]
    /\ UNCHANGED <<loader, yolo, _YOLO_MODEL, _YOLO_MODEL_PATH, fs, content, mtime, returned, edited>>

AnnotatePage(img_dir, label_dir) ==
    \E r \in {annotate_page(img_dir, label_dir)} :
        Answer("annotate_page", [img_dir |-> img_dir, label_dir |-> label_dir,
                                 train_file |-> None, mode |-> "annotate"], r)

Viewer(mode, img_dir, train_file, label_dir) ==
    \E r \in {viewer(mode, img_dir, train_file, label_dir)} :
        Answer("viewer", [img_dir |-> img_dir, label_dir |-> label_dir,
                          train_file |-> train_file, mode |-> mode], r)

GetLabels(mode, rel_path, label_dir, train_file, label_path_direct) ==
    \E r \in {get_labels(mode, rel_path, None, label_dir, train_file, label_path_direct)} :
        Answer("get_labels", [img_dir |-> None, label_dir |-> label_dir,
                              train_file |-> train_file, mode |-> mode,
                              rel_path |-> rel_path, direct |-> label_path_direct], r)

ScanProgress(mode, img_dir, label_dir, train_file) ==
    \E r \in {scan_progress(mode, img_dir, label_dir, train_file)} :
        Answer("scan_progress", [img_dir |-> img_dir, label_dir |-> label_dir,
                                 train_file |-> train_file, mode |-> mode], r)

InitRoutes ==
    /\ fs \in RouteFsConfigs
    /\ content = <<LineU, LineARel>>
    /\ InitRest

NextRoutes ==
    \/ \E i \in QueryInputs(P(SubSeq(ImagesD, 1, 2))) \ {None}, l \in QueryInputs(LabelDir) :
          AnnotatePage(i, l)
    \/ \E m \in {"folder", "txt", "bad"}, i \in QueryInputs(P(SubSeq(ImagesD, 1, 2))),
          t \in QueryInputs(TrainFile), l \in QueryInputs(LabelDir) : Viewer(m, i, t, l)
    \/ \E m \in {"folder", "txt"}, r \in {R(<<Name(ImgA)>>)},
          l \in {None, Str(LabelDir), AutoArg},
          t \in QueryInputs(TrainFile), d \in {None, Str(Lbl2)} : GetLabels(m, r, l, t, d)
    \/ \E m \in {"folder", "txt"}, i \in QueryInputs(P(SubSeq(ImagesD, 1, 2))),
          l \in {None, Str(LabelDir)}, t \in QueryInputs(TrainFile) : ScanProgress(m, i, l, t)

SpecRoutes == InitRoutes /\ [][NextRoutes]_vars

(***************************************************************************)
(* load_train_entries run by several threads at once.  The function takes *)
(* no lock: another thread, or an editor of the manifest, runs between the *)
(* stat() of line 205, the cache test of lines 206-207, each line read of  *)
(* line 213 and the cache write of line 251.                               *)
(***************************************************************************)
\* the one cache key the racing calls share
RaceArgs == {[train |-> TrainFile, label |-> LabelDir]}

\* the time stored were it read again when the entry is written
StoredMtimeAtWrite(statted, current) == current

\* line 251 stores the mtime that line 205 read
StoredMtime(statted, current) == statted

\* the call ends: the thread is free again and the outcome is recorded
Return(t, exc, value, parsed) ==
    /\ loader' = [loader EXCEPT ![t] = Idle]
    /\ last' = [op |-> "load", thread |-> t, args |-> loader[t].args, exc |-> exc,
                value |-> value, parsed |-> parsed]

\* lines 202-205: the call starts and reads the manifest's modification time
LoaderStat(t, a) ==
    /\ loader[t].pc = "idle"
    /\ IF Exists(Resolve(a.train))
       THEN /\ loader' = [loader EXCEPT ![t] =
                            [pc |-> "statted", args |-> a, train |-> Resolve(a.train),
                             cache_key |-> CacheKey(a.train, a.label), mtime |-> mtime]]
            /\ UNCHANGED last
       ELSE /\ last' = [op |-> "load", thread |-> t, args |-> a,
                        exc |-> "FileNotFoundError", value |-> None, parsed |-> FALSE]
            /\ UNCHANGED loader
    /\ UNCHANGED <<fs, content, mtime, cache, returned, edited,
                   yolo, _YOLO_MODEL, _YOLO_MODEL_PATH>>

\* lines 206-212: the cache test, then the manifest is opened
LoaderCheckCache(t) ==
    /\ loader[t].pc = "statted"
    /\ \E cached \in {CacheGet(cache, loader[t].cache_key)} :
          IF CacheHit(cached, loader[t].mtime)
          THEN Return(t, "none", cached.entries, FALSE)
          ELSE IF ~Exists(loader[t].train)
          THEN Return(t, "FileNotFoundError", None, FALSE)
          ELSE IF IsDir(loader[t].train)
          THEN Return(t, "IsADirectoryError", None, FALSE)
          ELSE /\ loader' = [loader EXCEPT ![t] =
                               [pc |-> "reading", args |-> loader[t].args,
                                train |-> loader[t].train,
                                cache_key |-> loader[t].cache_key,
                                mtime |-> loader[t].mtime, i |-> 1,
                                st |-> [entries |-> <<>>, seen_rel_paths |-> {}]]]
               /\ UNCHANGED last
    /\ UNCHANGED <<fs, content, mtime, cache, returned, edited,
                   yolo, _YOLO_MODEL, _YOLO_MODEL_PATH>>

\* lines 213-248: the next line is read from the file as it is now and handled;
\* at the end of the file the loop is left
LoaderReadLine(t) ==
    /\ loader[t].pc = "reading"
    /\ IF loader[t].i > Len(content)
       THEN loader' = [loader EXCEPT ![t].pc = "parsed"]
       ELSE \E next \in {LineStep(loader[t].st, content[loader[t].i],
                                  loader[t].train, loader[t].args.label)} :
               loader' = [loader EXCEPT ![t].st = next, ![t].i = @ + 1]
    /\ UNCHANGED <<fs, content, mtime, cache, last, returned, edited,
                   yolo, _YOLO_MODEL, _YOLO_MODEL_PATH>>

\* lines 250-252: the cache entry is written and the list returned
LoaderWriteCache(t) ==
    /\ loader[t].pc = "parsed"
    /\ cache' = CacheStore(cache, loader[t].cache_key,
                           CacheValue(StoredMtime(loader[t].mtime, mtime),
                                      loader[t].st.entries))
    /\ Return(t, "none", loader[t].st.entries, TRUE)
    /\ UNCHANGED <<fs, content, mtime, returned, edited,
                   yolo, _YOLO_MODEL, _YOLO_MODEL_PATH>>

NextRace ==
    \/ \E t \in Threads, a \in RaceArgs : LoaderStat(t, a)
    \/ \E t \in Threads : LoaderCheckCache(t)
    \/ \E t \in Threads : LoaderReadLine(t)
    \/ \E t \in Threads : LoaderWriteCache(t)
    \/ TouchManifest
    \/ \E c \in ManifestVersions : WriteManifest(c)

SpecRace == Init /\ [][NextRace]_vars

(***************************************************************************)
(* get_yolo_model run by several threads at once (detect_objects is a sync *)
(* route, so requests run on the threads of the pool).  Every read and     *)
(* every write of the globals _YOLO_MODEL and _YOLO_MODEL_PATH is a step   *)
(* of its own.                                                             *)
(***************************************************************************)
ModelNames == LoadableModels \cup CorruptModels \cup {"absent"}

\* YOLO(str(model_path)): the model object, which knows the file it came from
YOLO(model_path) == [loaded_from |-> model_path]

\* the call ends with a model or with an HTTPException
YoloDone(t, exc, result) ==
    yolo' = [yolo EXCEPT ![t] = [pc |-> "done", model_name |-> yolo[t].model_name,
                                 model_path |-> yolo[t].model_path,
                                 exc |-> exc, result |-> result]]

\* line 38
YoloCall(t, model_name) ==
    /\ yolo[t].pc \in {"idle", "done"}
    /\ yolo' = [yolo EXCEPT ![t] = [pc |-> "test_model", model_name |-> model_name,
                                    model_path |-> ModelPathOf(model_name)]]
    /\ UNCHANGED <<_YOLO_MODEL, _YOLO_MODEL_PATH>>

\* line 41, left operand: _YOLO_MODEL is not None
YoloTestModel(t) ==
    /\ yolo[t].pc = "test_model"
    /\ yolo' = [yolo EXCEPT ![t].pc = IF _YOLO_MODEL # None THEN "test_path" ELSE "exists"]
    /\ UNCHANGED <<_YOLO_MODEL, _YOLO_MODEL_PATH>>

\* line 41, right operand: _YOLO_MODEL_PATH == model_path
YoloTestPath(t) ==
    /\ yolo[t].pc = "test_path"
    /\ yolo' = [yolo EXCEPT ![t].pc = IF _YOLO_MODEL_PATH = yolo[t].model_path
                                      THEN "return_cached" ELSE "exists"]
    /\ UNCHANGED <<_YOLO_MODEL, _YOLO_MODEL_PATH>>

\* line 42: return _YOLO_MODEL
YoloReturnCached(t) ==
    /\ yolo[t].pc = "return_cached"
    /\ YoloDone(t, "none", _YOLO_MODEL)
    /\ UNCHANGED <<_YOLO_MODEL, _YOLO_MODEL_PATH>>

\* lines 44-45
YoloExists(t) ==
    /\ yolo[t].pc = "exists"
    /\ IF Exists(yolo[t].model_path)
       THEN yolo' = [yolo EXCEPT ![t].pc = "load"]
       ELSE YoloDone(t, "HTTPException 404", None)
    /\ UNCHANGED <<_YOLO_MODEL, _YOLO_MODEL_PATH>>

\* lines 48-50 and 54-56: _YOLO_MODEL = YOLO(str(model_path)), or the load fails
YoloLoad(t) ==
    /\ yolo[t].pc = "load"
    /\ IF yolo[t].model_name \in CorruptModels
       THEN /\ YoloDone(t, "HTTPException 500", None)
            /\ UNCHANGED <<_YOLO_MODEL, _YOLO_MODEL_PATH>>
       ELSE /\ _YOLO_MODEL' = YOLO(yolo[t].model_path)
            /\ yolo' = [yolo EXCEPT ![t].pc = "set_path"]
            /\ UNCHANGED _YOLO_MODEL_PATH

\* line 51: _YOLO_MODEL_PATH = model_path
YoloSetPath(t) ==
    /\ yolo[t].pc = "set_path"
    /\ _YOLO_MODEL_PATH' = yolo[t].model_path
    /\ yolo' = [yolo EXCEPT ![t].pc = "return"]
    /\ UNCHANGED _YOLO_MODEL

\* line 53: return _YOLO_MODEL
YoloReturn(t) ==
    /\ yolo[t].pc = "return"
    /\ YoloDone(t, "none", _YOLO_MODEL)
    /\ UNCHANGED <<_YOLO_MODEL, _YOLO_MODEL_PATH>>

NextYolo ==
    /\ \/ \E t \in Threads, n \in ModelNames : YoloCall(t, n)
       \/ \E t \in Threads : YoloTestModel(t)
       \/ \E t \in Threads : YoloTestPath(t)
       \/ \E t \in Threads : YoloReturnCached(t)
       \/ \E t \in Threads : YoloExists(t)
       \/ \E t \in Threads : YoloLoad(t)
       \/ \E t \in Threads : YoloSetPath(t)
       \/ \E t \in Threads : YoloReturn(t)
    /\ UNCHANGED <<fs, content, mtime, cache, last, returned, edited, loader>>

SpecYolo == Init /\ [][NextYolo]_vars

(***************************************************************************)
(* Properties of the path resolver (SpecResolve)                           *)
(***************************************************************************)
\* C8: resolve_dataset_path, given a path that does not exist literally, lies
\* under the host root and has no existing counterpart under the container
\* root, returns the original unmapped path and raises no exception.
C8_UnmappedHostPathReturnedSilently ==
    last.op = "resolve_dataset_path" =>
        LET lit == PathOf(Strip(last.raw))
            norm == P(Collapse(<<>>, lit.segs))
            n == Len(HOST_DATA_ROOT.segs)
            counterpart == P(CONTAINER_DATA_ROOT.segs \o SubSeq(norm.segs, n + 1, Len(norm.segs)))
        IN (lit.abs /\ ~Exists(lit) /\ IsUnder(norm, HOST_DATA_ROOT) /\ ~Exists(counterpart))
           => (last.out.exc = "none" /\ last.out.value = lit)

\* a host path was resolved while the container root itself was missing
C8_Witness ==
    /\ last.op = "resolve_dataset_path"
    /\ last.raw = Raw(HostPath(Tail(ImgA.segs)))
    /\ ~Exists(CONTAINER_DATA_ROOT)
    /\ last.out.value = HostPath(Tail(ImgA.segs))

\* C9: the resolver returns the first existing candidate among the literal
\* path, the host-root-to-container-root mapping (only when the path string
\* begins with the host root) and the join onto the base directory (only when
\* a base directory is given), and the original path when none exists; the
\* result is always an existing path or the original path.
C9_FirstExistingCandidate ==
    last.op \in {"resolve_dataset_path", "resolve_path_with_base"} =>
        LET lit == PathOf(Strip(last.raw))
            abs_raw == Resolve(Expanduser(lit))
            mapped == Join(CONTAINER_DATA_ROOT, RelPart(abs_raw))
            joined == Join(last.base, lit)
            applies == <<TRUE, StartsWithHostRoot(abs_raw), last.base # None>>
            Candidate(i) == CASE i = 1 -> lit [] i = 2 -> mapped [] i = 3 -> joined
            hits == {i \in 1..3 : applies[i] /\ Exists(Candidate(i))}
        IN /\ last.out.exc = "none"
           /\ last.out.value = IF hits = {} THEN lit ELSE Resolve(Candidate(Min(hits)))
           /\ Exists(last.out.value) \/ last.out.value = lit

\* the literal path and the mapping failed and the base directory join was returned
C9_Witness ==
    /\ last.op = "resolve_path_with_base"
    /\ last.raw = LineARel
    /\ last.base = CONTAINER_DATA_ROOT
    /\ last.out.value = ImgA
    /\ Exists(ImgA)

(***************************************************************************)
(* Properties of the label discovery helpers (SpecLabel)                   *)
(***************************************************************************)
\* C5: find_label_for_image returns the label of the nearest ancestor for
\* which the image's path relative to that ancestor, with the extension
\* replaced by .txt, is a file under the label root; without such an ancestor
\* it tries the bare filename under the label root, and returns no label when
\* that fails too.
C5_NearestAncestorWins ==
    last.op = "find_label_for_image" =>
        LET img == last.image
            root == Resolve(last.root)
            RelAt(k) == R(SubSeq(img.segs, Len(img.segs) - k + 1, Len(img.segs)))
            LabelAt(rel) == Resolve(Join(root, WithSuffix(rel, LABEL_EXT)))
            IsLabel(rel) == IsUnder(LabelAt(rel), root) /\ IsFile(LabelAt(rel))
            matches == {k \in 1..Len(img.segs) : IsLabel(RelAt(k))}
            bare == R(<<Name(img)>>)
        IN IF matches # {}
           THEN /\ last.out # None
                /\ last.out.rel_path = RelAt(Min(matches))
                /\ last.out.label_rel = WithSuffix(RelAt(Min(matches)), LABEL_EXT)
                /\ last.out.label_abs = LabelAt(RelAt(Min(matches)))
           ELSE IF IsLabel(bare)
           THEN /\ last.out # None
                /\ last.out.rel_path = bare
                /\ last.out.label_abs = LabelAt(bare)
           ELSE last.out = None

\* two ancestors match and the label of the nearer one was returned
C5_Witness ==
    /\ last.op = "find_label_for_image"
    /\ last.image = ImgA
    /\ ~IsFile(Lbl1) /\ IsFile(Lbl2) /\ IsFile(Lbl3)
    /\ last.out # None
    /\ last.out.label_abs = Lbl2

(***************************************************************************)
(* Properties of the manifest parse (SpecParse)                            *)
(*                                                                         *)
(* The operators below describe a manifest line by itself, without the     *)
(* loader's loop: the image it resolves to, whether it is usable, and the  *)
(* label and rel_path it is paired with.                                   *)
(***************************************************************************)
LineImage(raw_line) == resolve_path_with_base(Strip(raw_line), P(ParentSegs(TrainFile.segs)))

LineUsable(raw_line) ==
    /\ ~IsEmptyStr(Strip(raw_line))
    /\ Exists(LineImage(raw_line))
    /\ IsFile(LineImage(raw_line))
    /\ Suffix(LineImage(raw_line)) \in
           {".jpg", ".jpeg", ".png", ".bmp", ".webp", ".JPG", ".JPEG", ".PNG", ".BMP", ".WEBP"}

RelAt(img, k) == R(SubSeq(img.segs, Len(img.segs) - k + 1, Len(img.segs)))
LabelAt(rel) == Resolve(Join(Resolve(LabelDir), WithSuffix(rel, LABEL_EXT)))
IsLabel(rel) == IsUnder(LabelAt(rel), Resolve(LabelDir)) /\ IsFile(LabelAt(rel))
MatchingAncestors(img) == {k \in 1..Len(img.segs) : IsLabel(RelAt(img, k))}

\* the first place where a directory named "images" occurs in an absolute path
FirstImagesDir(img) ==
    {i \in 1..(Len(img.segs) - 1) :
        /\ img.segs[i] = D("images")
        /\ \A j \in 1..(i - 1) : img.segs[j] # D("images")}

AutoLabel(img) ==
    LET i == CHOOSE i \in FirstImagesDir(img) : TRUE
    IN WithSuffix(P([k \in 1..Len(img.segs) |-> IF k = i THEN D("labels") ELSE img.segs[k]]),
                  ".txt")

\* the entry a line is paired with, or None
LineEntry(raw_line, label_dir_path) ==
    LET img == LineImage(raw_line)
    IN IF ~LineUsable(raw_line) THEN None
       ELSE IF label_dir_path # None
       THEN IF MatchingAncestors(img) = {} THEN None
            ELSE LET rel == RelAt(img, Min(MatchingAncestors(img)))
                 IN [image_path |-> Resolve(img), label_path |-> LabelAt(rel),
                     rel_path |-> rel, label_rel |-> WithSuffix(rel, ".txt")]
       ELSE IF FirstImagesDir(img) = {} \/ ~Exists(AutoLabel(img)) THEN None
            ELSE [image_path |-> Resolve(img), label_path |-> AutoLabel(img),
                  rel_path |-> R(<<Name(img)>>), label_rel |-> R(<<Name(AutoLabel(img))>>)]

\* the lines that are paired with an entry whose rel_path no earlier line has
KeptLines(lines, label_dir_path) ==
    {i \in DOMAIN lines :
        /\ LineEntry(lines[i], label_dir_path) # None
        /\ \A j \in 1..(i - 1) :
              LineEntry(lines[j], label_dir_path) # None
              => LineEntry(lines[j], label_dir_path).rel_path
                   # LineEntry(lines[i], label_dir_path).rel_path}

Loaded == last.op = "load" /\ last.exc = "none"

\* C3: the returned list never holds two entries with the same rel_path;
\* rel_path is the image path relative to the first matching ancestor (label
\* directory given) or the bare filename (auto mode); of several lines with
\* the same rel_path, the entry of the first one is kept.
C3_FirstOccurrenceWins ==
    Loaded =>
        /\ \A i, j \in DOMAIN last.value :
              last.value[i].rel_path = last.value[j].rel_path => i = j
        /\ \A i \in DOMAIN last.value :
              LET e == last.value[i]
                  same == {l \in DOMAIN content :
                              /\ LineEntry(content[l], last.args.label) # None
                              /\ LineEntry(content[l], last.args.label).rel_path = e.rel_path}
              IN /\ same # {}
                 /\ e.image_path = Resolve(LineImage(content[Min(same)]))
                 /\ e.rel_path = IF last.args.label # None
                                 THEN RelAt(e.image_path, Min(MatchingAncestors(e.image_path)))
                                 ELSE R(<<Name(e.image_path)>>)

\* two lines naming different images got the same rel_path; the first was kept
C3_Witness ==
    /\ Loaded
    /\ last.args.label # None
    /\ content = <<LineBHost, LineARel>>
    /\ LineEntry(LineARel, LabelDir) # None
    /\ Len(last.value) = 1
    /\ last.value[1].image_path = ImgB

\* C4: load_train_entries returns exactly the manifest's valid lines in
\* manifest order: a line yields an entry iff it is non-blank, its resolved
\* image exists, is a regular file, has an extension of the allow-list
\* (compared without regard to case), a label is found for it and no
\* earlier line produced its rel_path.
C4_ExactlyTheValidLines ==
    Loaded =>
        LET kept == KeptLines(content, last.args.label)
            Rank(i) == Cardinality({j \in kept : j <= i})
        IN /\ Len(last.value) = Cardinality(kept)
           /\ \A i \in kept : last.value[Rank(i)] = LineEntry(content[i], last.args.label)

\* of two lines, the first was skipped for its extension and the second kept
C4_Witness ==
    /\ Loaded
    /\ content = <<LineG, LineU>>
    /\ Len(last.value) = 1
    /\ last.value[1].image_path = ImgU

\* C6 as stated: with a label directory, a usable image line whose dir/name
\* path has a label file dir/name.txt under the label root gets that label,
\* whatever else the label root holds.
C6_AsStated ==
    (Loaded /\ last.args.label # None) =>
        \A l \in DOMAIN content :
            LET img == LineImage(content[l])
            IN (LineUsable(content[l]) /\ Len(img.segs) >= 2 /\ IsLabel(RelAt(img, 2)))
               => \E i \in DOMAIN last.value :
                     /\ last.value[i].rel_path = RelAt(img, 2)
                     /\ last.value[i].label_path = LabelAt(RelAt(img, 2))

\* C6 amended: ... provided the label root has no file name.txt for the bare
\* filename (the parent is the nearest ancestor and is tried first); the entry
\* with rel_path dir/name then has the label dir/name.txt, and it is the
\* line's own entry unless an earlier line produced the same rel_path.
C6_LabelOneLevelUp ==
    (Loaded /\ last.args.label # None) =>
        \A l \in DOMAIN content :
            LET img == LineImage(content[l])
            IN (/\ LineUsable(content[l])
                /\ Len(img.segs) >= 2
                /\ IsLabel(RelAt(img, 2))
                /\ ~IsLabel(RelAt(img, 1)))
               => \E i \in DOMAIN last.value :
                     /\ last.value[i].rel_path = RelAt(img, 2)
                     /\ last.value[i].label_path = LabelAt(RelAt(img, 2))
                     /\ l \in KeptLines(content, last.args.label)
                        => last.value[i].image_path = Resolve(img)

\* an image line was paired with the label one directory level up
C6_Witness ==
    /\ Loaded
    /\ last.args.label # None
    /\ content = <<LineARel>>
    /\ ~IsFile(Lbl1)
    /\ Len(last.value) = 1
    /\ last.value[1].label_path = Lbl2

\* C7: in auto mode an image whose path has no "images" directory gets no
\* label and no entry; otherwise only the first "images" is replaced by
\* "labels", and the label is accepted only if that exact .txt path exists.
C7_AutoNeedsImagesSegment ==
    (Loaded /\ last.args.label = None) =>
        /\ \A i \in DOMAIN last.value :
              LET e == last.value[i]
              IN /\ FirstImagesDir(e.image_path) # {}
                 /\ e.label_path = AutoLabel(e.image_path)
                 /\ Exists(e.label_path)
        /\ \A l \in DOMAIN content :
              (LineUsable(content[l]) /\ FirstImagesDir(LineImage(content[l])) = {})
              => \A i \in DOMAIN last.value :
                    last.value[i].image_path # Resolve(LineImage(content[l]))

\* an image outside any "images" directory was dropped, and an image below two
\* "images" directories got the label below labels/images
C7_Witness ==
    /\ Loaded
    /\ last.args.label = None
    /\ content = <<LineBHost, LineC>>
    /\ Len(last.value) = 1
    /\ last.value[1].image_path = ImgC
    /\ last.value[1].label_path = AutoC

(***************************************************************************)
(* Properties of the cache (Spec)                                          *)
(***************************************************************************)
\* C1: two calls of load_train_entries with the same arguments, with the
\* manifest file not modified between them, return the same list, in content
\* and in order.
C1_Idempotent ==
    [][\A a \in LoadArgs :
          (/\ last'.op = "load" /\ last'.args = a
           /\ returned[a].valid
           /\ LoadTrainEntries(a))
          => (last'.exc = "none" /\ last'.value = returned[a].value)]_vars

\* a repeated call returned the earlier list although a label file had changed
\* in between, so that a parse would now give another list
C1_Witness ==
    /\ last.op = "load"
    /\ last.how = "hit"
    /\ returned[last.args].valid
    /\ last.value = returned[last.args].value
    /\ last.value # ParseManifest(Resolve(last.args.train), last.args.label)

\* C2: a call that finds a cache entry whose stored modification time differs
\* from the manifest's current one re-parses the file and overwrites the
\* entry with the new time and result, even when the content is unchanged;
\* the cached list is returned without reading the file exactly when the
\* stored time equals the current one.
C2_MtimeInvalidates ==
    [][\A a \in LoadArgs :
          (last'.op = "load" /\ last'.args = a /\ LoadTrainEntries(a)) =>
              LET cache_key == <<a.train, IF a.label = None THEN AutoStr ELSE a.label>>
                  stored == IF cache_key \in DOMAIN cache THEN cache[cache_key].mtime ELSE 0
              IN /\ (stored # 0 /\ stored # mtime)
                    => /\ last'.parsed
                       /\ last'.value = ParseManifest(a.train, a.label)
                       /\ cache'[cache_key].mtime = mtime
                       /\ cache'[cache_key].entries = last'.value
                 /\ ~last'.parsed <=> stored = mtime
                 /\ ~last'.parsed => (last'.value = cache[cache_key].entries /\ cache' = cache)]_vars

\* a touched manifest with unchanged lines was parsed again
C2_Witness ==
    /\ last.op = "load"
    /\ last.how = "stale"
    /\ last.parsed
    /\ ~edited
    /\ mtime > 1

\* C10: get_train_entry_by_rel refreshes a stale or missing cache entry and
\* returns the entry of the cached parse whose rel_path equals the argument,
\* None when the parse has no such entry; the entry returned is a member of
\* the list load_train_entries returns for the same key.
C10_LookupByRel ==
    [][\A a \in LoadArgs, rel_path \in RelInputs :
          (/\ last'.op = "get" /\ last'.args = a /\ last'.rel = rel_path
           /\ GetTrainEntryByRel(a, rel_path)) =>
              LET cache_key == <<a.train, IF a.label = None THEN AutoStr ELSE a.label>>
                  entries == cache'[cache_key].entries
                  found == {i \in DOMAIN entries : entries[i].rel_path = rel_path}
              IN /\ last'.exc = "none"
                 /\ cache_key \in DOMAIN cache'
                 /\ cache'[cache_key].mtime = mtime'
                 /\ returned'[a].value = entries
                 /\ IF found = {} THEN last'.value = None
                    ELSE /\ last'.value \in {entries[i] : i \in found}
                         /\ last'.value.rel_path = rel_path]_vars

\* a lookup refreshed a stale entry and found the rel_path in the new parse
C10_Witness ==
    /\ last.op = "get"
    /\ last.how = "stale"
    /\ last.value # None
    /\ last.value.rel_path = last.rel

(***************************************************************************)
(* Properties of the routes (SpecRoutes)                                   *)
(***************************************************************************)
\* the exceptions load_train_entries ends with: stat() of a manifest that does
\* not exist, open() of a manifest that is a directory
LoaderExceptions == {"FileNotFoundError", "IsADirectoryError"}

\* C11: no request ends with an exception of load_train_entries or
\* get_train_entry_by_rel: for every manifest path, also one that does not
\* exist or cannot be read, the loader's failure degrades to an empty result
\* and no exception reaches the route that called it.
C11_NoLoaderException ==
    last.op \in {"viewer", "get_labels", "scan_progress"} =>
        last.resp.exc \notin LoaderExceptions

\* the handler resolved this parameter and got back a path that does not exist
ResolvedMissing(param) == Truthy(param) /\ ~Exists(resolve_dataset_path(param))

\* the user-supplied path a viewer request resolves first to a missing path:
\* "label", "image", "train", or "none" when it resolves no missing path
ViewerMissing(args) ==
    IF ModeOf(args.mode) \notin DATASET_MODES THEN "none"
    ELSE IF ResolvedMissing(args.label_dir) THEN "label"
    ELSE IF ModeOf(args.mode) = "folder"
    THEN IF Truthy(args.label_dir) /\ ResolvedMissing(args.img_dir) THEN "image" ELSE "none"
    ELSE IF ResolvedMissing(args.train_file) THEN "train" ELSE "none"

\* the same for annotate_page, which resolves label_dir only after img_dir passed
AnnotateMissing(args) ==
    IF ResolvedMissing(args.img_dir) THEN "image"
    ELSE IF IsDir(resolve_dataset_path(args.img_dir)) /\ ResolvedMissing(args.label_dir)
    THEN "label"
    ELSE "none"

\* C12 as stated: every route handler that resolves a user-supplied dataset
\* path and gets back a path that does not exist answers with a not-found
\* (404) response.
C12_AsStated ==
    /\ (last.op = "viewer" /\ ViewerMissing(last.args) # "none") => last.resp.status = 404
    /\ (last.op = "annotate_page" /\ AnnotateMissing(last.args) # "none") =>
           last.resp.status = 404
    /\ (last.op = "get_labels" /\ ModeOf(last.args.mode) = "folder"
        /\ ResolvedMissing(last.args.label_dir)) => last.resp.status = 404

\* C12, amended: a page route that resolves a user-supplied dataset path and
\* gets back a path that does not exist answers with a client-error response
\* that names the path, never with the page: annotate_page with status 404,
\* viewer with status 400 and the index page.
C12_MissingPathIsClientError ==
    /\ last.op = "viewer" =>
          LET m == ViewerMissing(last.args)
          IN m # "none" =>
                /\ last.resp.status = 400
                /\ last.resp.page = "index.html"
                /\ last.resp.detail = CASE m = "label" -> "Invalid label directory"
                                        [] m = "image" -> "Invalid image directory"
                                        [] m = "train" -> "Invalid train file"
    /\ last.op = "annotate_page" =>
          LET m == AnnotateMissing(last.args)
          IN m # "none" =>
                /\ last.resp.status = 404
                /\ last.resp.detail = CASE m = "image" -> "Image directory not found"
                                        [] m = "label" -> "Label directory not found"

\* viewer was asked for a manifest that does not exist, the label directory
\* being absent or valid
C12_Witness ==
    /\ last.op = "viewer"
    /\ ViewerMissing(last.args) = "train"
    /\ last.resp.status = 400

(***************************************************************************)
(* Frame of the cache (Spec)                                               *)
(***************************************************************************)
\* C14: a load_train_entries call for a key adds or replaces only the cache
\* entry of that key: every other key keeps its entry, and no step of the
\* program removes a key, so the set of cached keys only grows.
C14_OnlyOwnKeyWritten ==
    [][/\ DOMAIN cache \subseteq DOMAIN cache'
       /\ \A a \in LoadArgs :
            (last'.op \in {"load", "get"} /\ last'.args = a) =>
                /\ \A k \in DOMAIN cache : k # CacheKey(a.train, a.label) => cache'[k] = cache[k]
                /\ DOMAIN cache' \subseteq DOMAIN cache \cup {CacheKey(a.train, a.label)}
     ]_<<cache, last>>

\* a call replaced the stale entry of its key while the other key was cached
C14_Witness ==
    /\ last.op = "load"
    /\ last.how = "stale"
    /\ last.parsed
    /\ Cardinality(DOMAIN cache) = 2
    /\ \E k \in DOMAIN cache : cache[k].mtime # mtime

(***************************************************************************)
(* Properties of concurrent loaders (SpecRace)                             *)
(***************************************************************************)
\* C13: when several threads run load_train_entries for the same key without
\* a lock, under every interleaving with edits of the manifest that each
\* change its modification time: whenever the time stored in the cache entry
\* equals the manifest's current modification time, the cached list is the
\* parse of the manifest's current content, whichever thread wrote last.
C13_RaceBenign ==
    \A a \in RaceArgs :
        LET cache_key == CacheKey(a.train, a.label)
        IN (cache_key \in DOMAIN cache /\ cache[cache_key].mtime = mtime) =>
              cache[cache_key].entries = ParseManifest(Resolve(a.train), a.label)

\* the manifest was rewritten during a call that is about to write what it
\* parsed, while the other thread has already cached the current version
C13_Witness ==
    \E t \in Threads, a \in RaceArgs :
        /\ loader[t].pc = "parsed"
        /\ loader[t].mtime < mtime
        /\ loader[t].st.entries # ParseManifest(Resolve(a.train), a.label)
        /\ edited
        /\ CacheKey(a.train, a.label) \in DOMAIN cache
        /\ cache[CacheKey(a.train, a.label)].mtime = mtime

\* a cache value: the mapping has exactly the rel_paths of the list, and maps
\* each to the one entry of the list with that rel_path
SelfConsistent(v) ==
    /\ DOMAIN v.by_rel = {v.entries[i].rel_path : i \in DOMAIN v.entries}
    /\ \A r \in DOMAIN v.by_rel :
          \E i \in DOMAIN v.entries :
              /\ v.entries[i] = v.by_rel[r]
              /\ v.entries[i].rel_path = r
              /\ \A j \in DOMAIN v.entries : v.entries[j].rel_path = r => j = i

\* C15: in every reachable state, also with concurrent loaders, each value of
\* the manifest cache is self-consistent, and the stored time, the list and
\* the mapping of a value come from the same call: a value appears in the
\* cache only in the step where a thread stores the time it read and the
\* list it parsed.
C15_CacheValuesConsistent ==
    /\ [](\A k \in DOMAIN cache : SelfConsistent(cache[k]))
    /\ [][\A k \in DOMAIN cache' :
            (k \notin DOMAIN cache \/ cache'[k] # cache[k]) =>
                \E t \in Threads :
                    /\ loader[t].pc = "parsed"
                    /\ loader'[t] = Idle
                    /\ loader[t].cache_key = k
                    /\ cache'[k].mtime = loader[t].mtime
                    /\ cache'[k].entries = loader[t].st.entries]_vars

\* a thread has cached a list of two entries while the other is reading the
\* manifest, rewritten since
C15_Witness ==
    /\ \E k \in DOMAIN cache : Len(cache[k].entries) = 2 /\ cache[k].mtime # mtime
    /\ \E t \in Threads : loader[t].pc = "reading" /\ loader[t].i = 2
    /\ edited

(***************************************************************************)
(* Properties of the model cache (SpecYolo)                                *)
(***************************************************************************)
\* C16: get_yolo_model(name) returns the cached model only if it was loaded
\* from MODEL_DIR/name.pt: under every interleaving of requests for different
\* model names, the model a call returns was loaded from the path of the name
\* that call asked for, and a failed load leaves the cached model and its
\* recorded path unchanged.
C16_ReturnsRequestedModel ==
    /\ [](\A t \in Threads :
            (yolo[t].pc = "done" /\ yolo[t].exc = "none") =>
                yolo[t].result.loaded_from = ModelPathOf(yolo[t].model_name))
    /\ [][\A t \in Threads :
            (yolo'[t].pc = "done" /\ yolo[t].pc # "done" /\ yolo'[t].exc # "none") =>
                /\ _YOLO_MODEL' = _YOLO_MODEL
                /\ _YOLO_MODEL_PATH' = _YOLO_MODEL_PATH]_vars

====
